---- MODULE Spec2Model ----
(***************************************************************************)
(* Model of the PyGrid infrastructure CLI (apps/infrastructure/cli/cli.py). *)
(* One run of the process: the click group callback `cli`, one subcommand  *)
(* (`deploy` or `status`) and the result callback `logging`.               *)
(***************************************************************************)
EXTENDS Integers, Sequences, FiniteSets, TLC

VARIABLES
    pc,           \* position of the single thread of control
    config,       \* the shared Config object (attribute name -> value)
    credentials,  \* deploy's local Config object `credentials`
    args,         \* parameters click parsed for the invoked subcommand
    response,     \* cli's local `response` (health probe), <<>> before the probe
    r,            \* deploy's / status' local `r`, <<>> before the request
    confirmed,    \* value returned by click.confirm at line 101
    rendered,     \* configuration text shown in the confirmation prompt
    http,         \* HTTP requests issued so far, in order
    out,          \* messages echoed to the terminal, in order
    rootdir,      \* whether os.makedirs(pygrid_root_path) has run
    files         \* writes made to the file system, in order

vars == <<pc, config, credentials, args, response, r, confirmed, rendered,
          http, out, rootdir, files>>

-----------------------------------------------------------------------------
(* Bounds and input domains *)

MaxId == 1

ApiUrls == { [origin |-> "http://grid", path |-> ""],
             [origin |-> "http://grid", path |-> "/api/"] }

OutputFiles == { "config_ts.json", "my.json" }

HOME == "/home/user"

StatusCodes == { 200, 500 }

Bodies == { "json_message", "json_nomessage", "not_json" }

\* what requests.get / requests.post can produce: an exception, or a response
Responses ==
    { [raised |-> TRUE, status_code |-> 0, body |-> "none"] } \cup
    { [raised |-> FALSE, status_code |-> s, body |-> b] : s \in StatusCodes, b \in Bodies }

ProviderInputs == { "AWS", "aws", "GCP", "Azure" }

DeployAppInputs == { "Node", "node", "Network", "WORKER" }

StatusAppInputs == { "Node", "NETWORK" }

IdInputs == { <<>> } \cup { <<i>> : i \in 0..MaxId }

CredentialFiles == { "missing", "bad_json", "cloud_secret" }

NodeIds == { "n1", "n2" }

VpcConfigs == { "vpc_cfg" }

DbConfigs == { "db_cfg" }

-----------------------------------------------------------------------------
(* Helpers *)

\* str.lower() on the strings click.Choice lets through
lower(s) ==
    CASE s \in { "AWS", "aws", "Aws" }             -> "aws"
      [] s \in { "GCP", "gcp" }                    -> "gcp"
      [] s \in { "AZURE", "azure", "Azure" }       -> "azure"
      [] s \in { "Node", "node", "NODE" }          -> "node"
      [] s \in { "Network", "network", "NETWORK" } -> "network"
      [] s \in { "Worker", "worker", "WORKER" }    -> "worker"
      [] OTHER                                     -> s

\* utils.Config(**kwargs): an object whose attributes are the keyword arguments
Config(kwargs) == kwargs

\* obj.k = v
SetAttr(obj, k, v) ==
    [a \in (DOMAIN obj) \cup {k} |-> IF a = k THEN v ELSE obj[a]]

\* urllib.parse.urljoin(base, path) for a path starting with "/"
urljoin(base, path) == [origin |-> base.origin, path |-> path]

\* json.dumps(vars(obj), default=lambda o: o.__dict__): JSON text of the object
json_dumps(obj) == [text_of |-> obj]

\* json.loads(text)
json_loads(text) == text.text_of

Request(method, url, body) == [method |-> method, url |-> url, body |-> body]

-----------------------------------------------------------------------------
Init ==
    /\ pc = "cli"
    /\ config = Config(<<>>)
    /\ credentials = <<>>
    /\ args = <<>>
    /\ response = <<>>
    /\ r = <<>>
    /\ confirmed = "unasked"
    /\ rendered = <<>>
    /\ http = <<>>
    /\ out = <<>>
    /\ rootdir = FALSE
    /\ files = <<>>

-----------------------------------------------------------------------------
(* cli: the group callback, lines 22-44 *)

\* variant: a 200 answer without a `message` key is not treated as an error
ProbeRaises_NoKeyError(resp) ==
    \/ resp.raised
    \/ resp.status_code = 200 /\ resp.body = "not_json"

\* does the body of the try block (lines 32-36) raise for this probe result?
ProbeRaises(resp) ==
    \/ resp.raised
    \/ resp.status_code = 200 /\ resp.body # "json_message"

\* lines 31-39: store api_url, probe it, quit() on any exception
cli_try(api_url, resp) ==
    /\ pc = "cli"
    /\ config' = SetAttr(config, "api_url", api_url)
    /\ http' = Append(http, Request("GET", api_url, <<>>))
    /\ response' = resp
    /\ IF ProbeRaises(resp)
         THEN /\ out' = Append(out, "invalid_api_url")
              /\ pc' = "exited"
         ELSE /\ out' = IF resp.status_code = 200
                          THEN out \o << "message", "welcome" >>
                          ELSE out
              /\ pc' = "cli_root"
    /\ UNCHANGED <<credentials, args, r, confirmed, rendered, rootdir, files>>

\* lines 41-44: root directory and output file path
cli_root(output_file) ==
    /\ pc = "cli_root"
    /\ LET root == HOME \o "/.pygrid/cli"
       IN  config' = SetAttr(SetAttr(config, "pygrid_root_path", root),
                             "output_file", root \o "/" \o output_file)
    /\ rootdir' = TRUE
    /\ pc' = "invoke"
    /\ UNCHANGED <<credentials, args, response, r, confirmed, rendered, http, out, files>>

cli ==
    \/ \E api_url \in ApiUrls, resp \in Responses : cli_try(api_url, resp)
    \/ \E output_file \in OutputFiles : cli_root(output_file)

\* click invokes the subcommand named on the command line with its options
invoke_deploy(provider, app) ==
    /\ pc = "invoke"
    /\ args' = [cmd |-> "deploy", provider |-> provider, app |-> app]
    /\ pc' = "deploy"
    /\ UNCHANGED <<config, credentials, response, r, confirmed, rendered, http, out,
                   rootdir, files>>

invoke_status(app, id) ==
    /\ pc = "invoke"
    /\ args' = [cmd |-> "status", app |-> app, id |-> id]
    /\ pc' = "status"
    /\ UNCHANGED <<config, credentials, response, r, confirmed, rendered, http, out,
                   rootdir, files>>

invoke ==
    \/ \E provider \in ProviderInputs, app \in DeployAppInputs : invoke_deploy(provider, app)
    \/ \E app \in StatusAppInputs, id \in IdInputs : invoke_status(app, id)

-----------------------------------------------------------------------------
(* deploy: lines 63-115 *)

ServerlessAnswers == BOOLEAN

PortAnswers == { "5000" }

HostAnswers == { "0.0.0.0" }

NetworkAnswers == { "0.0.0.0:7000" }

\* the answers the prompts of get_app_arguments can receive
AppAnswers ==
    [ id : NodeIds, port : PortAnswers, host : HostAnswers, network : NetworkAnswers ]

\* variant: the handler starts from a fresh Config instead of the shared one
deploy_provider_fresh ==
    /\ pc = "deploy"
    /\ config' = Config([provider |-> lower(args.provider)])
    /\ credentials' = Config(<<>>)
    /\ pc' = "d_credentials"
    /\ UNCHANGED <<args, response, r, confirmed, rendered, http, out, rootdir, files>>

\* lines 64-66: normalise the provider, create the credentials object
deploy_provider ==
    /\ pc = "deploy"
    /\ config' = SetAttr(config, "provider", lower(args.provider))
    /\ credentials' = Config(<<>>)
    /\ pc' = "d_credentials"
    /\ UNCHANGED <<args, response, r, confirmed, rendered, http, out, rootdir, files>>

\* lines 68-77: open the credentials file and json.load it (errors are not caught)
deploy_credentials(file) ==
    /\ pc = "d_credentials"
    /\ IF file \in { "missing", "bad_json" }
         THEN /\ pc' = "crashed"
              /\ UNCHANGED credentials
         ELSE /\ credentials' = SetAttr(credentials, "cloud", file)
              /\ pc' = "d_app"
    /\ UNCHANGED <<config, args, response, r, confirmed, rendered, http, out, rootdir, files>>

\* line 80
deploy_app ==
    /\ pc = "d_app"
    /\ config' = SetAttr(config, "app", Config([name |-> lower(args.app)]))
    /\ pc' = "d_serverless"
    /\ UNCHANGED <<credentials, args, response, r, confirmed, rendered, http, out,
                   rootdir, files>>

\* line 83
deploy_serverless(answer) ==
    /\ pc = "d_serverless"
    /\ config' = SetAttr(config, "serverless", answer)
    /\ pc' = "d_websockets"
    /\ UNCHANGED <<credentials, args, response, r, confirmed, rendered, http, out,
                   rootdir, files>>

\* line 86
deploy_websockets(answer) ==
    /\ pc = "d_websockets"
    /\ config' = SetAttr(config, "websockets", answer)
    /\ pc' = "d_app_arguments"
    /\ UNCHANGED <<credentials, args, response, r, confirmed, rendered, http, out,
                   rootdir, files>>

\* variant: the network branch does not look at config.serverless
get_app_arguments_any_network(cfg, ans) ==
    IF cfg.app.name = "node"
      THEN SetAttr(cfg, "app",
             SetAttr(SetAttr(SetAttr(SetAttr(cfg.app, "id", ans.id),
                                     "port", ans.port),
                             "host", ans.host),
                     "network", ans.network))
      ELSE IF cfg.app.name = "network"
             THEN SetAttr(cfg, "app",
                    SetAttr(SetAttr(cfg.app, "port", ans.port), "host", ans.host))
             ELSE cfg

\* lines 118-157: the attributes added to config.app
get_app_arguments(cfg, ans) ==
    IF cfg.app.name = "node"
      THEN SetAttr(cfg, "app",
             SetAttr(SetAttr(SetAttr(SetAttr(cfg.app, "id", ans.id),
                                     "port", ans.port),
                             "host", ans.host),
                     "network", ans.network))
      ELSE IF cfg.app.name = "network" /\ ~cfg.serverless
             THEN SetAttr(cfg, "app",
                    SetAttr(SetAttr(cfg.app, "port", ans.port), "host", ans.host))
             ELSE cfg

\* line 88
deploy_app_arguments(ans) ==
    /\ pc = "d_app_arguments"
    /\ config' = get_app_arguments(config, ans)
    /\ pc' = "d_vpc"
    /\ UNCHANGED <<credentials, args, response, r, confirmed, rendered, http, out,
                   rootdir, files>>

\* variant: the provider is compared as typed, not as stored
deploy_vpc_raw_provider(vpc) ==
    /\ pc = "d_vpc"
    /\ config' = IF args.provider = "aws"
                   THEN SetAttr(config, "vpc", vpc)
                   ELSE config
    /\ pc' = "d_db"
    /\ UNCHANGED <<credentials, args, response, r, confirmed, rendered, http, out,
                   rootdir, files>>

\* lines 90-96: provider-specific configuration
deploy_vpc(vpc) ==
    /\ pc = "d_vpc"
    /\ config' = IF config.provider = "aws"
                   THEN SetAttr(config, "vpc", vpc)
                   ELSE config
    /\ pc' = "d_db"
    /\ UNCHANGED <<credentials, args, response, r, confirmed, rendered, http, out,
                   rootdir, files>>

\* variant: the database configuration is fetched for AWS only
deploy_db_aws_only(db) ==
    /\ pc = "d_db"
    /\ credentials' = IF config.provider = "aws"
                        THEN SetAttr(credentials, "db", db)
                        ELSE credentials
    /\ pc' = "d_confirm"
    /\ UNCHANGED <<config, args, response, r, confirmed, rendered, http, out, rootdir, files>>

\* variant: the credentials are attached to the configuration before the confirmation
deploy_db_attach_early(db) ==
    /\ pc = "d_db"
    /\ credentials' = SetAttr(credentials, "db", db)
    /\ config' = SetAttr(config, "credentials", credentials')
    /\ pc' = "d_confirm"
    /\ UNCHANGED <<args, response, r, confirmed, rendered, http, out, rootdir, files>>

\* lines 98-99
deploy_db(db) ==
    /\ pc = "d_db"
    /\ credentials' = SetAttr(credentials, "db", db)
    /\ pc' = "d_confirm"
    /\ UNCHANGED <<config, args, response, r, confirmed, rendered, http, out, rootdir, files>>

\* variant: the answer to the confirmation is ignored
deploy_confirm_ignored(answer) ==
    /\ pc = "d_confirm"
    /\ rendered' = << json_dumps(config) >>
    /\ confirmed' = IF answer THEN "yes" ELSE "no"
    /\ pc' = "d_post"
    /\ UNCHANGED <<config, credentials, args, response, r, http, out, rootdir, files>>

\* lines 101-103: show the configuration, ask whether to continue
deploy_confirm(answer) ==
    /\ pc = "d_confirm"
    /\ rendered' = << json_dumps(config) >>
    /\ confirmed' = IF answer THEN "yes" ELSE "no"
    /\ pc' = IF answer THEN "d_post" ELSE "logging"
    /\ UNCHANGED <<config, credentials, args, response, r, http, out, rootdir, files>>

\* lines 105-115: attach the credentials, POST the configuration, print the answer
deploy_post(resp) ==
    /\ pc = "d_post"
    /\ config' = SetAttr(config, "credentials", credentials)
    /\ LET url  == urljoin(config.api_url, "/deploy")
           data == json_dumps(config')
       IN  http' = Append(http, Request("POST", url, << json_dumps(data) >>))
    /\ r' = resp
    /\ IF resp.raised \/ resp.body = "not_json"
         THEN /\ pc' = "crashed"
              /\ UNCHANGED out
         ELSE /\ out' = Append(out, IF resp.status_code = 200
                                      THEN "deploy_response"
                                      ELSE "deploy_error_response")
              /\ pc' = "logging"
    /\ UNCHANGED <<credentials, args, response, confirmed, rendered, rootdir, files>>

deploy ==
    \/ deploy_provider
    \/ \E file \in CredentialFiles : deploy_credentials(file)
    \/ deploy_app
    \/ \E answer \in ServerlessAnswers : deploy_serverless(answer)
    \/ \E answer \in BOOLEAN : deploy_websockets(answer)
    \/ \E ans \in AppAnswers : deploy_app_arguments(ans)
    \/ \E vpc \in VpcConfigs : deploy_vpc(vpc)
    \/ \E db \in DbConfigs : deploy_db(db)
    \/ \E answer \in BOOLEAN : deploy_confirm(answer)
    \/ \E resp \in Responses : deploy_post(resp)

-----------------------------------------------------------------------------
(* status: lines 174-187 *)

\* variant: `if not id` instead of `if id is None`
status_url_falsy_id(api_url, app, id) ==
    IF id = <<>> \/ id = <<0>>
      THEN urljoin(api_url, "/deployed/" \o lower(app) \o "s")
      ELSE urljoin(api_url, "/deployed/" \o lower(app) \o "/" \o ToString(id[1]))

\* lines 175-180
status_url(api_url, app, id) ==
    IF id = <<>>
      THEN urljoin(api_url, "/deployed/" \o lower(app) \o "s")
      ELSE urljoin(api_url, "/deployed/" \o lower(app) \o "/" \o ToString(id[1]))

status(resp) ==
    /\ pc = "status"
    /\ http' = Append(http, Request("GET", status_url(config.api_url, args.app, args.id), <<>>))
    /\ r' = resp
    /\ IF resp.raised \/ (resp.status_code = 200 /\ resp.body = "not_json")
         THEN /\ pc' = "crashed"
              /\ UNCHANGED out
         ELSE /\ out' = Append(out, IF resp.status_code = 200
                                      THEN "status_response"
                                      ELSE "status_error")
              /\ pc' = "logging"
    /\ UNCHANGED <<config, credentials, args, response, confirmed, rendered, rootdir, files>>

-----------------------------------------------------------------------------
(* logging: the result callback, lines 190-195 *)

logging ==
    /\ pc = "logging"
    /\ out' = Append(out, "writing_configs")
    /\ files' = Append(files, [path |-> config.output_file, content |-> json_dumps(config)])
    /\ pc' = "done"
    /\ UNCHANGED <<config, credentials, args, response, r, confirmed, rendered, http, rootdir>>

-----------------------------------------------------------------------------
Next ==
    \/ cli
    \/ invoke
    \/ deploy
    \/ \E resp \in Responses : status(resp)
    \/ logging

Spec == Init /\ [][Next]_vars

-----------------------------------------------------------------------------
(* Properties *)

\* C1: when the health probe is answered with a status other than 200 the
\* process terminates at once: no subcommand is invoked, no further HTTP
\* request is issued, and no output file is written.
C1_Non200ProbeTerminates ==
    (response # <<>> /\ ~response.raised /\ response.status_code # 200) =>
        /\ pc = "exited"
        /\ args = <<>>
        /\ Len(http) = 1
        /\ files = <<>>

\* C2: when the health probe raises (network error, a 200 answer whose body
\* is not JSON, or a 200 answer whose JSON has no `message`), the process
\* terminates: no subcommand runs, the root directory and the output_file
\* path are not set up, no further request is issued and nothing is written.
C2_ProbeExceptionTerminates ==
    (/\ response # <<>>
     /\ \/ response.raised
        \/ response.status_code = 200 /\ response.body \in {"not_json", "json_nomessage"}) =>
        /\ pc = "exited"
        /\ args = <<>>
        /\ ~rootdir
        /\ "pygrid_root_path" \notin DOMAIN config
        /\ "output_file" \notin DOMAIN config
        /\ Len(http) = 1
        /\ files = <<>>
        /\ out = << "invalid_api_url" >>

C2_Witness ==
    /\ pc = "exited"
    /\ response # <<>>
    /\ ~response.raised
    /\ response.status_code = 200
    /\ response.body = "json_nomessage"

\* C3: once the final confirmation of deploy is declined, no POST is ever
\* issued, control goes to the finalizer, and the finalizer writes one output
\* file holding the configuration gathered so far (exactly what was shown).
C3_DeclineSkipsPostButWrites ==
    (confirmed = "no") =>
        /\ \A i \in 1..Len(http) : http[i].method # "POST"
        /\ pc \in {"logging", "done"}
        /\ pc = "logging" => ENABLED logging
        /\ pc = "done" =>
             /\ Len(files) = 1
             /\ files[1].path = config.output_file
             /\ files[1].content = rendered[1]
             /\ {"provider", "app", "serverless", "websockets"}
                    \subseteq DOMAIN json_loads(files[1].content)

C3_Witness ==
    /\ confirmed = "no"
    /\ pc = "done"
    /\ Len(files) = 1
    /\ Len(http) = 1

\* C4: in a deploy run, the configuration posted to /deploy and the one the
\* finalizer writes have a `vpc` field exactly when the stored provider is
\* "aws", which is exactly when the provider was typed as AWS in any casing.
C4_VpcIffAws ==
    (args # <<>> /\ args.cmd = "deploy") =>
        /\ \A i \in 1..Len(http) : http[i].method = "POST" =>
             LET doc == json_loads(json_loads(http[i].body[1]))
             IN  /\ doc.provider \in {"aws", "gcp", "azure"}
                 /\ ("vpc" \in DOMAIN doc) <=> (doc.provider = "aws")
                 /\ (doc.provider = "aws") <=> (args.provider \in {"AWS", "aws"})
        /\ \A i \in 1..Len(files) :
             LET doc == json_loads(files[i].content)
             IN  /\ doc.provider \in {"aws", "gcp", "azure"}
                 /\ ("vpc" \in DOMAIN doc) <=> (doc.provider = "aws")
                 /\ (doc.provider = "aws") <=> (args.provider \in {"AWS", "aws"})

C4_Witness ==
    /\ pc = "done"
    /\ confirmed = "yes"
    /\ args.provider = "AWS"
    /\ "vpc" \in DOMAIN json_loads(files[1].content)
    /\ "vpc" \in DOMAIN json_loads(json_loads(http[2].body[1]))

\* C5: after the application-argument step the fields of `app` are fixed by
\* (app.name, serverless): node has name, id, port, host, network; a network
\* that is not serverless has name, port, host; a serverless network and a
\* worker have name only.
C5_AppFields ==
    ("app" \in DOMAIN config /\ pc \notin {"d_serverless", "d_websockets", "d_app_arguments"}) =>
        LET name   == config.app.name
            fields == DOMAIN config.app
        IN  /\ name \in {"node", "network", "worker"}
            /\ name = "node" => fields = {"name", "id", "port", "host", "network"}
            /\ (name = "network" /\ ~config.serverless) => fields = {"name", "port", "host"}
            /\ (name = "network" /\ config.serverless) => fields = {"name"}
            /\ name = "worker" => fields = {"name"}

C5_Witness ==
    /\ pc = "done"
    /\ "app" \in DOMAIN config
    /\ config.app.name = "network"
    /\ config.serverless
    /\ DOMAIN config.app = {"name"}

\* C6: status issues exactly one GET after the health probe and never a POST;
\* without an id the GET goes to /deployed/{app}s, with an id (0 included) to
\* /deployed/{app}/{id}, app being the lower-cased choice.
C6_StatusOneGet ==
    (args # <<>> /\ args.cmd = "status") =>
        LET app  == IF args.app \in {"Node", "node", "NODE"} THEN "node" ELSE "network"
            path == IF args.id = <<>>
                      THEN "/deployed/" \o app \o "s"
                      ELSE "/deployed/" \o app \o "/" \o ToString(args.id[1])
        IN  /\ \A i \in 1..Len(http) : http[i].method = "GET"
            /\ pc = "status" => Len(http) = 1
            /\ pc # "status" =>
                 /\ Len(http) = 2
                 /\ http[2].url = [origin |-> config.api_url.origin, path |-> path]

C6_Witness ==
    /\ args # <<>>
    /\ args.cmd = "status"
    /\ args.id = <<0>>
    /\ pc = "done"
    /\ http[2].url.path = "/deployed/node/0"

\* C7: a non-200 answer to the deploy POST or to the status GET is not fatal:
\* the subcommand returns and the finalizer runs once and writes the shared
\* configuration to output_file.
C7_Non200NotFatal ==
    (r # <<>> /\ ~r.raised /\ r.status_code # 200) =>
        /\ pc \in {"logging", "done"}
        /\ pc = "done" =>
             /\ Len(files) = 1
             /\ files[1] = [path |-> config.output_file, content |-> json_dumps(config)]

\* C8: a confirmed deploy issues exactly one POST, to /deploy, as its last
\* request and only after every collection step; the posted document is the
\* configuration that was shown plus credentials = {cloud, db}, for every
\* provider.
C8_ConfirmedPost ==
    LET posts == { i \in 1..Len(http) : http[i].method = "POST" }
    IN  /\ posts # {} =>
             /\ confirmed = "yes"
             /\ rendered # <<>>
             /\ DOMAIN credentials = {"cloud", "db"}
        /\ (confirmed = "yes" /\ pc # "d_post") =>
             /\ Cardinality(posts) = 1
             /\ \A i \in posts :
                  LET doc == json_loads(json_loads(http[i].body[1]))
                  IN  /\ i = Len(http)
                      /\ http[i].url = [origin |-> config.api_url.origin, path |-> "/deploy"]
                      /\ {"provider", "app", "serverless", "websockets", "credentials"}
                             \subseteq DOMAIN doc
                      /\ doc.provider \in {"aws", "gcp", "azure"}
                      /\ DOMAIN doc.credentials = {"cloud", "db"}
                      /\ [k \in (DOMAIN doc) \ {"credentials"} |-> doc[k]]
                             = json_loads(rendered[1])

C8_Witness ==
    /\ confirmed = "yes"
    /\ pc = "done"
    /\ config.provider = "gcp"
    /\ http[2].method = "POST"
    /\ "db" \in DOMAIN json_loads(json_loads(http[2].body[1])).credentials

\* C9: until the confirmation is accepted the configuration object has no
\* `credentials` field, the configuration shown for confirmation has none
\* either, and the file the finalizer writes has `credentials` (cloud and db)
\* exactly when the confirmation was accepted.
C9_CredentialsApart ==
    /\ confirmed # "yes" => "credentials" \notin DOMAIN config
    /\ rendered # <<>> => "credentials" \notin DOMAIN json_loads(rendered[1])
    /\ \A i \in 1..Len(files) :
         LET doc == json_loads(files[i].content)
         IN  /\ ("credentials" \in DOMAIN doc) <=> (confirmed = "yes")
             /\ "credentials" \in DOMAIN doc => DOMAIN doc.credentials = {"cloud", "db"}

C9_Witness ==
    /\ pc = "done"
    /\ confirmed = "yes"
    /\ DOMAIN json_loads(files[1].content).credentials = {"cloud", "db"}
    /\ "credentials" \notin DOMAIN json_loads(rendered[1])

\* C10: every step leaves each field already set in the configuration (and
\* in its `app` record) in place with its value, api_url included, and the
\* finalizer does not change the configuration.
C10_ConfigOnlyGrows ==
    [][ /\ \A k \in DOMAIN config :
             /\ k \in DOMAIN config'
             /\ IF k = "app"
                  THEN \A j \in DOMAIN config[k] :
                          j \in DOMAIN config'[k] /\ config'[k][j] = config[k][j]
                  ELSE config'[k] = config[k]
        /\ pc = "logging" => config' = config ]_vars

C10_Witness ==
    /\ pc = "done"
    /\ {"api_url", "output_file", "vpc", "credentials"} \subseteq DOMAIN config
    /\ "network" \in DOMAIN config.app

====
